---- MODULE Spec2Model ----
(***************************************************************************)
(* Model of api/index.js: the in-memory session store (activeSessions),    *)
(* getFileCryptSession, and the three request handlers                     *)
(*   POST /solve-filecrypt, POST /get-solved-links, POST /cleanup-sessions.*)
(* Every `await` of the source is a suspension point: the code between two *)
(* awaits is one atomic action, and actions of different in-flight         *)
(* requests interleave freely (Node's single-threaded event loop).         *)
(***************************************************************************)
EXTENDS Integers, Sequences, FiniteSets, TLC

\* ---------------------------------------------------------------- bounds
NumReqs     == 2      \* concurrent /solve-filecrypt requests
MaxSessions == 2      \* sessions (uuids, browsers) ever created
MaxClock    == 2      \* how far the clock runs while requests interleave,
MaxSeqClock == 3      \*   and while they run one at a time (in expiry thresholds)
MaxLinks    == 1      \* anchors one page.evaluate returns at most while requests interleave,
MaxSeqLinks == 2      \*   and in the runs that look at the links
MaxSolves   == 3      \* /solve-filecrypt requests ever accepted
MaxSweeps   == 2      \* /cleanup-sessions requests ever accepted
MaxLiveSolves == 2    \* /solve-filecrypt requests accepted in the runs checked for progress
MaxLiveSweeps == 1    \*   and /cleanup-sessions requests

\* ------------------------------------------------------ program constants
expiredThreshold == 1800000     \* 30 * 60 * 1000 ms

Reqs     == 1 .. NumReqs
SessIds  == 1 .. MaxSessions
NoId     == 0                   \* no session / sessionId absent from the body
BlankId  == -1                  \* a sessionId the body carries that is falsy: "", 0, null, false
\* What the body of a /get-solved-links request can carry as sessionId.
SessionIdInputs == SessIds \cup {NoId, BlankId}
\* JavaScript truthiness of a sessionId value (line 149: `sessionId && ...`)
Truthy(v) == v \notin {NoId, BlankId}
SiteIds  == {"A", "B"}
\* The clock is observed in steps of the expiry threshold, so a session is
\* seen at the ages 0 (fresh), exactly 30 minutes, and beyond.
TimeSteps == {expiredThreshold, 2 * expiredThreshold}

\* Request URLs: filecrypt.co/<style>/<id>.
Urls == [style : {"Container", "Link", "Folder"}, id : SiteIds]

\* The URLs of requests that race on one site identifier.
UrlsOfA == { u \in Urls : u.id = "A" }

NoMatch == "nomatch"

\* A match that takes the identifier whatever the path style.
filecryptIdMatch_AnyStyle(u) == u.id

\* filecryptUrl.match(/filecrypt\.co\/(?:Container\/|Link\/)([A-Z0-9]+)/i):
\* the captured group, or NoMatch when the path style is neither alternative.
filecryptIdMatch(u) ==
  IF u.style \in {"Container", "Link"} THEN u.id ELSE NoMatch

\* Anchors a page can show: {url, text} records.
LinkUrls  == {"g1", "g2"}
LinkTexts == {"t1", "t2"}
NoText    == "none"
Links     == [url : LinkUrls, text : LinkTexts] \ { [url |-> "g2", text |-> "t2"] }

RECURSIVE SeqsUpTo(_, _)
SeqsUpTo(S, n) ==
  IF n = 0 THEN { <<>> }
  ELSE LET shorter == SeqsUpTo(S, n - 1)
       IN shorter \cup { Append(q, x) : q \in { p \in shorter : Len(p) = n - 1 }, x \in S }

\* What page.evaluate can return: the anchors in document order.
SeqLinkLists == SeqsUpTo(Links, MaxSeqLinks)

\* The same with one anchor to choose from.
LinkLists == SeqsUpTo({ [url |-> "g1", text |-> "t1"] }, MaxLinks)

\* ------------------------------------------------------------- the state
VARIABLES
  now,             \* Date.now()
  activeSessions,  \* the Map, as its entry list in insertion order
  nextId,          \* next uuid / browser to hand out
  filecryptIdOf,   \* session.filecryptId
  createdAt,       \* session.createdAt
  solvedLinks,     \* session.solvedLinks: url -> text (NoText: no entry)
  browser,         \* the browser of session s: "none", "open", "closed"
  closeCalls,      \* how often browser.close() was invoked on it
  req,             \* the in-flight /solve-filecrypt requests
  sw,              \* the /cleanup-sessions request
  answered,        \* per siteId: sessionIds carried by solve-filecrypt responses
  started,         \* requests accepted so far, per endpoint
  lastSweep        \* set when the last step was an undisturbed sweep's response

vars == << now, activeSessions, nextId, filecryptIdOf, createdAt, solvedLinks, browser,
           closeCalls, req, sw, answered, started, lastSweep >>

\* ------------------------------------------------------- Map operations
RECURSIVE MapIndex(_, _, _)
\* index of key k in entry list m at or after position i, 0 when absent
MapIndex(m, k, i) ==
  IF i > Len(m) THEN 0
  ELSE IF m[i].k = k THEN i ELSE MapIndex(m, k, i + 1)

MapHas(m, k) == MapIndex(m, k, 1) # 0
MapGet(m, k) == m[MapIndex(m, k, 1)].v

\* Map.prototype.set: an existing key keeps its position, a new key is appended
MapSet(m, k, v) ==
  IF MapHas(m, k)
  THEN [m EXCEPT ![MapIndex(m, k, 1)] = [k |-> k, v |-> v]]
  ELSE Append(m, [k |-> k, v |-> v])

RemoveAt(m, j) == SubSeq(m, 1, j - 1) \o SubSeq(m, j + 1, Len(m))

\* A delete that drops the oldest entry, whatever the key.
MapDelete_Oldest(m, k) == IF m = <<>> THEN m ELSE Tail(m)

\* Map.prototype.delete
MapDelete(m, k) ==
  IF MapHas(m, k) THEN RemoveAt(m, MapIndex(m, k, 1)) ELSE m

MapVals(m) == { m[i].v : i \in 1 .. Len(m) }

EmptyLinks == [u \in LinkUrls |-> NoText]

\* A /solve-filecrypt response: res.status(..).json({success, links, sessionId, error}).
\* status 0: nothing sent yet.
NoResp == [status |-> 0, success |-> FALSE, error |-> "none", links |-> <<>>, sessionId |-> NoId]

SolveResp(status, success, error, links, sid) ==
  [status |-> status, success |-> success, error |-> error, links |-> links, sessionId |-> sid]

IdleReq ==
  [ pc |-> "idle", filecryptId |-> NoMatch, session |-> NoId, page |-> "none",
    links |-> <<>>, resp |-> NoResp,
    old |-> NoId, e |-> "none", merged |-> FALSE ]

\* The /cleanup-sessions handler: its locals (now, cleanedCount, the Map
\* iterator `it`, the entry being closed) and what an observer records about
\* the run (start, closedBefore, seenOld, alone, second, firstNow).
IdleSweep ==
  [ pc |-> "idle", now |-> 0, cleanedCount |-> 0, it |-> 0, cur |-> NoId,
    curKey |-> NoMatch, size |-> 0,
    start |-> <<>>, closedBefore |-> [s \in SessIds |-> 0],
    before |-> <<>>, seenOld |-> {},
    alone |-> FALSE, second |-> FALSE, firstNow |-> 0, firstCount |-> 0 ]

NoSweep == [ok |-> FALSE, now |-> 0, count |-> 0]

Init ==
  /\ now = 0
  /\ activeSessions = <<>>
  /\ nextId = 1
  /\ filecryptIdOf = [s \in SessIds |-> NoMatch]
  /\ createdAt = [s \in SessIds |-> 0]
  /\ solvedLinks = [s \in SessIds |-> EmptyLinks]
  /\ browser = [s \in SessIds |-> "none"]
  /\ closeCalls = [s \in SessIds |-> 0]
  /\ req = [r \in Reqs |-> IdleReq]
  /\ sw = IdleSweep
  /\ answered = [k \in SiteIds |-> {}]
  /\ started = [solve |-> 0, sweep |-> 0]
  /\ lastSweep = NoSweep

\* No handler is between its last statement and the slot being free again:
\* a response is the last thing a continuation does, so nothing runs in between.
Quiescent ==
  /\ sw.pc # "done"
  /\ \A r \in Reqs : req[r].pc # "done"

Age(t, s) == t - createdAt[s]

\* A freshness check that compares against the wrong limit.
IsFresh_TooLong(t, s) == Age(t, s) < 3 * expiredThreshold

\* line 21: Date.now() - session.createdAt < 30 * 60 * 1000
IsFresh(t, s) == Age(t, s) < expiredThreshold

\* Time passes (between any two continuations).
Tick(limit) ==
  /\ lastSweep' = NoSweep
  /\ Quiescent
  /\ \E d \in TimeSteps :
       /\ now + d <= limit * expiredThreshold
       /\ now' = now + d
  /\ UNCHANGED << activeSessions, nextId, filecryptIdOf, createdAt, solvedLinks, browser, closeCalls,
                  req, sw, answered, started >>

\* Another request starts while the sweep is in flight: the sweep's locals
\* stay, the observer stops recording it as an undisturbed run.
Disturbed ==
  IF sw.pc = "idle" THEN sw
  ELSE [sw EXCEPT !.alone = FALSE, !.second = FALSE, !.firstNow = 0, !.firstCount = 0,
                  !.start = <<>>, !.closedBefore = IdleSweep.closedBefore,
                  !.before = <<>>, !.seenOld = {}]

\* An iterator that keeps its index when an entry before it goes away, and
\* so steps over the entry that moved up.
ItAfterDelete_NoShift(j) == sw.it

\* The sweep's Map iterator after the entry at index j was deleted: the
\* iterator of a Map visits every entry present when it gets there, so a
\* deletion at or before its position moves it back by one.
ItAfterDelete(j) == IF j # 0 /\ j <= sw.it THEN sw.it - 1 ELSE sw.it

\* A solve-filecrypt request arrives: lines 53-64 up to the first suspension
\* inside getFileCryptSession (lines 18-33).
SolveStart(r, u) ==
  /\ lastSweep' = NoSweep
  /\ Quiescent
  /\ req[r].pc = "idle"
  /\ \A q \in Reqs : q < r => req[q].pc # "idle"      \* the lowest free slot takes it
  /\ started.solve < MaxSolves
  /\ started' = [started EXCEPT !.solve = @ + 1]
  /\ LET id == filecryptIdMatch(u)
         base == [IdleReq EXCEPT !.filecryptId = id]
     IN IF id = NoMatch
        THEN /\ req' = [req EXCEPT ![r] = [base EXCEPT !.pc = "done",
                          !.resp = SolveResp(400, FALSE, "InvalidInput", <<>>, NoId)]]
             /\ UNCHANGED << closeCalls, sw >>
        ELSE /\ sw' = Disturbed
             /\ LET b == base
                IN IF MapHas(activeSessions, id)
                   THEN LET session == MapGet(activeSessions, id)
                        IN IF IsFresh(now, session)
                           THEN /\ req' = [req EXCEPT ![r] = [b EXCEPT !.pc = "newPage",
                                             !.session = session]]
                                /\ UNCHANGED closeCalls
                           ELSE \* line 26: session.browser.close() is invoked, then awaited
                                /\ req' = [req EXCEPT ![r] = [b EXCEPT !.pc = "closing",
                                             !.session = session]]
                                /\ closeCalls' = [closeCalls EXCEPT ![session] = @ + 1]
                   ELSE \* line 33: puppeteer.launch() is invoked, then awaited
                        /\ req' = [req EXCEPT ![r] = [b EXCEPT !.pc = "launching"]]
                        /\ UNCHANGED closeCalls
  /\ UNCHANGED << now, activeSessions, nextId, filecryptIdOf, createdAt, solvedLinks, browser,
                  answered >>

\* browser.close() of the expired session settles (line 26: a rejection is
\* swallowed by .catch); line 28 deletes the key, line 33 invokes launch.
\* A browser that is closed takes its pages with it.
PagesAfterClose(s, closed) ==
  [q \in Reqs |-> IF closed /\ req[q].session = s /\ req[q].page = "open"
                   THEN [req[q] EXCEPT !.page = "closed"] ELSE req[q]]

\* A close() without the .catch: a rejection leaves getFileCryptSession before
\* the delete and reaches the handler's outer catch.
ExpiredCloseDone_Propagates(r, ok) ==
  /\ lastSweep' = NoSweep
  /\ Quiescent
  /\ req[r].pc = "closing"
  /\ LET s == req[r].session
         j == MapIndex(activeSessions, req[r].filecryptId, 1)
     IN IF ok
        THEN /\ browser' = [browser EXCEPT ![s] = "closed"]
             /\ activeSessions' = MapDelete(activeSessions, req[r].filecryptId)
             /\ sw' = [sw EXCEPT !.it = ItAfterDelete(j)]
             /\ req' = [PagesAfterClose(s, ok) EXCEPT ![r].pc = "launching",
                                                     ![r].session = NoId, ![r].old = s]
        ELSE /\ req' = [req EXCEPT ![r].pc = "done", ![r].e = "close",
                          ![r].resp = SolveResp(500, FALSE, "Unexpected", <<>>, NoId)]
             /\ UNCHANGED << browser, activeSessions, sw >>
  /\ UNCHANGED << now, nextId, filecryptIdOf, createdAt, solvedLinks, closeCalls,
                  answered, started >>

ExpiredCloseDone(r, ok) ==
  /\ lastSweep' = NoSweep
  /\ Quiescent
  /\ req[r].pc = "closing"
  /\ LET s == req[r].session
         j == MapIndex(activeSessions, req[r].filecryptId, 1)
     IN /\ browser' = IF ok THEN [browser EXCEPT ![s] = "closed"] ELSE browser
        /\ activeSessions' = MapDelete(activeSessions, req[r].filecryptId)
        /\ sw' = [sw EXCEPT !.it = ItAfterDelete(j)]
        /\ req' = [PagesAfterClose(s, ok) EXCEPT ![r].pc = "launching", ![r].session = NoId,
                                                ![r].old = s]
  /\ UNCHANGED << now, nextId, filecryptIdOf, createdAt, solvedLinks, closeCalls,
                  answered, started >>

\* A handler without the outer catch: the rejection ends it with no response.
Unexpected_Uncaught(r, cause) ==
  [req[r] EXCEPT !.pc = "rejected", !.e = cause, !.old = NoId]

\* line 119-124: the outer catch answers 500; the page is not touched.
Unexpected(r, cause) ==
  [req[r] EXCEPT !.pc = "done", !.e = cause, !.old = NoId,
                 !.resp = SolveResp(500, FALSE, "Unexpected", <<>>, NoId)]

\* puppeteer.launch() settles: lines 38-47 build and store the session, or
\* the rejection reaches the handler's outer catch (lines 119-124).
LaunchDone(r, ok) ==
  /\ lastSweep' = NoSweep
  /\ Quiescent
  /\ req[r].pc = "launching"
  /\ IF ok
     THEN /\ nextId <= MaxSessions
          /\ browser' = [browser EXCEPT ![nextId] = "open"]
          /\ filecryptIdOf' = [filecryptIdOf EXCEPT ![nextId] = req[r].filecryptId]
          /\ createdAt' = [createdAt EXCEPT ![nextId] = now]
          /\ solvedLinks' = [solvedLinks EXCEPT ![nextId] = EmptyLinks]
          /\ activeSessions' = MapSet(activeSessions, req[r].filecryptId, nextId)
          /\ nextId' = nextId + 1
          /\ req' = [req EXCEPT ![r].pc = "newPage", ![r].session = nextId]
     ELSE /\ req' = [req EXCEPT ![r] = Unexpected(r, "launch")]
          /\ UNCHANGED << browser, filecryptIdOf, createdAt, solvedLinks, activeSessions, nextId >>
  /\ UNCHANGED << now, closeCalls, sw, answered, started >>

\* ----------------------------------------- the extraction workflow (65-125)
ReqFrame == << now, activeSessions, nextId, filecryptIdOf, createdAt, browser, closeCalls, sw,
               answered, started >>

\* line 65: session.browser.newPage() settles. It needs a running browser.
NewPageDone(r, ok) ==
  /\ lastSweep' = NoSweep
  /\ Quiescent
  /\ req[r].pc = "newPage"
  /\ ok => browser[req[r].session] = "open"
  /\ req' = [req EXCEPT ![r] =
               IF ok THEN [req[r] EXCEPT !.pc = "goto", !.page = "open", !.old = NoId]
                     ELSE Unexpected(r, "newPage")]
  /\ UNCHANGED << ReqFrame, solvedLinks >>

\* line 68: page.goto() settles.
GotoDone(r, ok) ==
  /\ lastSweep' = NoSweep
  /\ Quiescent
  /\ req[r].pc = "goto"
  /\ ok => req[r].page = "open"
  /\ req' = [req EXCEPT ![r] =
               IF ok THEN [req[r] EXCEPT !.pc = "probe"] ELSE Unexpected(r, "goto")]
  /\ UNCHANGED << ReqFrame, solvedLinks >>

\* lines 71-72: the CAPTCHA probe settles either way (.catch logs and goes on);
\* line 82 starts the 120 s wait for a result link.
ProbeDone(r) ==
  /\ lastSweep' = NoSweep
  /\ Quiescent
  /\ req[r].pc = "probe"
  /\ req' = [req EXCEPT ![r].pc = "waitLinks"]
  /\ UNCHANGED << ReqFrame, solvedLinks >>

\* lines 110-112: the inner catch invokes page.close() and awaits it.
InnerCatch(r, cause) ==
  [req[r] EXCEPT !.pc = "closeCatch", !.e = IF @ = "none" THEN cause ELSE @]

\* line 82: waitForSelector settles: an anchor appeared ("found"), the 120 s
\* ran out ("timeout"), or it rejected for another reason ("error": the page
\* or its browser went away).
WaitLinksDone(r, outcome) ==
  /\ lastSweep' = NoSweep
  /\ Quiescent
  /\ req[r].pc = "waitLinks"
  /\ outcome \in {"found", "timeout"} => req[r].page = "open"
  /\ req' = [req EXCEPT ![r] =
               CASE outcome = "found"   -> [req[r] EXCEPT !.pc = "evaluate"]
                 [] outcome = "timeout" -> InnerCatch(r, "waitTimeout")
                 [] OTHER               -> InnerCatch(r, "waitError")]
  /\ UNCHANGED << ReqFrame, solvedLinks >>

\* A merge that starts from an empty map: the page's links replace the old ones.
MergeLinks_Replace(m, gofileLinks, i) ==
  [u \in LinkUrls |->
     IF \E x \in 1 .. Len(gofileLinks) : gofileLinks[x].url = u
     THEN gofileLinks[CHOOSE x \in 1 .. Len(gofileLinks) :
                        /\ gofileLinks[x].url = u
                        /\ \A y \in (x + 1) .. Len(gofileLinks) : gofileLinks[y].url # u].text
     ELSE NoText]

RECURSIVE MergeLinks(_, _, _)
\* lines 97-99: gofileLinks.forEach(link => solvedLinks.set(link.url, link))
MergeLinks(m, gofileLinks, i) ==
  IF i > Len(gofileLinks) THEN m
  ELSE MergeLinks([m EXCEPT ![gofileLinks[i].url] = gofileLinks[i].text], gofileLinks, i + 1)

\* line 85: page.evaluate() settles; on success lines 97-102 merge the links
\* into the session object this request holds and invoke page.close().
EvaluateDone(r, ok, gofileLinks) ==
  /\ lastSweep' = NoSweep
  /\ Quiescent
  /\ req[r].pc = "evaluate"
  /\ ok => req[r].page = "open"
  /\ IF ok
     THEN LET s == req[r].session
              merged == MergeLinks(solvedLinks[s], gofileLinks, 1)
          IN /\ solvedLinks' = [solvedLinks EXCEPT ![s] = merged]
             /\ req' = [req EXCEPT ![r].pc = "closeOk", ![r].links = gofileLinks,
                                   ![r].merged = (merged # solvedLinks[s])]
     ELSE /\ gofileLinks = <<>>
          /\ req' = [req EXCEPT ![r] = InnerCatch(r, "evaluate")]
          /\ UNCHANGED solvedLinks
  /\ UNCHANGED ReqFrame

\* line 102: page.close() settles; lines 104-109 answer success, or the
\* rejection is caught by the inner catch (line 110), which closes again.
PageCloseDone(r, ok) ==
  /\ lastSweep' = NoSweep
  /\ Quiescent
  /\ req[r].pc = "closeOk"
  /\ IF ok
     THEN /\ req' = [req EXCEPT ![r].pc = "done", ![r].page = "closed",
                       ![r].resp = SolveResp(200, TRUE, "none", req[r].links, req[r].session)]
          /\ answered' = [answered EXCEPT ![req[r].filecryptId] = @ \cup {req[r].session}]
     ELSE /\ req' = [req EXCEPT ![r] = InnerCatch(r, "pageClose")]
          /\ UNCHANGED answered
  /\ UNCHANGED << now, activeSessions, nextId, filecryptIdOf, createdAt, browser, closeCalls, sw,
                  solvedLinks, started >>

\* line 112: the inner catch's page.close() settles; lines 113-117 answer
\* Timeout, or the rejection leaves the catch block for the outer catch.
CatchCloseDone(r, ok) ==
  /\ lastSweep' = NoSweep
  /\ Quiescent
  /\ req[r].pc = "closeCatch"
  /\ IF ok
     THEN /\ req' = [req EXCEPT ![r].pc = "done", ![r].page = "closed",
                       ![r].resp = SolveResp(200, FALSE, "Timeout", <<>>, req[r].session)]
          /\ answered' = [answered EXCEPT ![req[r].filecryptId] = @ \cup {req[r].session}]
     ELSE /\ req' = [req EXCEPT ![r] = Unexpected(r, req[r].e)]
          /\ UNCHANGED answered
  /\ UNCHANGED << now, activeSessions, nextId, filecryptIdOf, createdAt, browser, closeCalls, sw,
                  solvedLinks, started >>

\* The response is out; the handler is gone.
SolveFinish(r) ==
  /\ lastSweep' = NoSweep
  /\ req[r].pc = "done"
  /\ req' = [req EXCEPT ![r] = IdleReq]
  /\ UNCHANGED << ReqFrame, solvedLinks >>

\* ------------------------------------------- POST /get-solved-links (129-168)
\* Array.from(session.solvedLinks.values()), as the set of its {url, text} records
SolvedLinksOf(s) ==
  { [url |-> u, text |-> solvedLinks[s][u]] : u \in { x \in LinkUrls : solvedLinks[s][x] # NoText } }

LinksResp(status, error, links, sid) ==
  [status |-> status, error |-> error, links |-> links, sessionId |-> sid]

\* A lookup that skips the sessionId check.
GetSolvedLinksResponse_NoCheck(u, sessionId) ==
  LET id == filecryptIdMatch(u)
  IN IF id = NoMatch THEN LinksResp(400, "InvalidInput", {}, NoId)
     ELSE IF ~MapHas(activeSessions, id) THEN LinksResp(404, "NotFound", {}, NoId)
     ELSE LET session == MapGet(activeSessions, id)
          IN LinksResp(200, "none", SolvedLinksOf(session), session)

\* What the handler answers to body {filecryptUrl: u, sessionId} in the
\* current state (lines 131-160); sessionId NoId: the field is absent.
GetSolvedLinksResponse(u, sessionId) ==
  LET id == filecryptIdMatch(u)
  IN IF id = NoMatch THEN LinksResp(400, "InvalidInput", {}, NoId)
     ELSE IF ~MapHas(activeSessions, id) THEN LinksResp(404, "NotFound", {}, NoId)
     ELSE LET session == MapGet(activeSessions, id)
          IN IF Truthy(sessionId) /\ session # sessionId
             THEN LinksResp(403, "Forbidden", {}, NoId)
             ELSE LinksResp(200, "none", SolvedLinksOf(session), session)

\* A lookup that drops a stored session it finds older than the threshold.
GetSolvedLinks_Evicts ==
  /\ lastSweep' = NoSweep
  /\ Quiescent
  /\ sw' = Disturbed
  /\ \E k \in SiteIds :
       /\ MapHas(activeSessions, k)
       /\ activeSessions' = IF IsFresh(now, MapGet(activeSessions, k))
                             THEN activeSessions ELSE MapDelete(activeSessions, k)
  /\ UNCHANGED << now, nextId, filecryptIdOf, createdAt, solvedLinks, browser,
                  closeCalls, req, answered, started >>

\* The handler has no await: request to response is one step, and whatever
\* the body, it writes to nothing but the response.
GetSolvedLinks ==
  /\ lastSweep' = NoSweep
  /\ Quiescent
  /\ sw' = Disturbed
  /\ UNCHANGED << now, activeSessions, nextId, filecryptIdOf, createdAt, solvedLinks, browser,
                  closeCalls, req, answered, started >>

\* ------------------------------------------- POST /cleanup-sessions (171-201)
RECURSIVE ScanFrom_AtThreshold(_, _, _)
\* A scan that also stops at a session of exactly the threshold age.
ScanFrom_AtThreshold(m, i, t) ==
  IF i >= Len(m) THEN 0
  ELSE IF Age(t, m[i + 1].v) >= expiredThreshold THEN i + 1
  ELSE ScanFrom_AtThreshold(m, i + 1, t)

RECURSIVE ScanFrom(_, _, _)
\* lines 178-179: the iterator advances from position i to the first entry
\* with now - session.createdAt > expiredThreshold; 0 when it runs off the end.
ScanFrom(m, i, t) ==
  IF i >= Len(m) THEN 0
  ELSE IF Age(t, m[i + 1].v) > expiredThreshold THEN i + 1
  ELSE ScanFrom(m, i + 1, t)

\* The sessions the iterator visits going from position i to j (to the end if j = 0).
Visited(m, i, j) == { m[x].v : x \in (i + 1) .. (IF j = 0 THEN Len(m) ELSE j) }

\* The loop runs from iterator position i until it suspends on a close (line
\* 182) or ends and answers (lines 189-193).
SweepRun(base, m, i) ==
  LET j == ScanFrom(m, i, base.now)
      b == IF base.alone
           THEN [base EXCEPT !.seenOld = @ \cup { s \in Visited(m, i, j) : Age(now, s) > expiredThreshold }]
           ELSE base
  IN IF j = 0
     THEN [b EXCEPT !.pc = "done", !.it = Len(m), !.cur = NoId, !.curKey = NoMatch,
                    !.size = Len(m)]
     ELSE [b EXCEPT !.pc = "closing", !.it = j, !.cur = m[j].v, !.curKey = m[j].k]

SweepStart ==
  /\ lastSweep' = NoSweep
  /\ Quiescent
  /\ sw.pc = "idle"
  /\ started.sweep < MaxSweeps
  /\ started' = [started EXCEPT !.sweep = @ + 1]
  /\ LET base == IF \A r \in Reqs : req[r].pc = "idle"
                 THEN [IdleSweep EXCEPT !.now = now, !.start = activeSessions,
                         !.closedBefore = closeCalls, !.alone = TRUE,
                         !.before = << browser, solvedLinks, createdAt >>,
                         !.second = lastSweep.ok, !.firstNow = lastSweep.now,
                         !.firstCount = lastSweep.count]
                 ELSE [IdleSweep EXCEPT !.now = now]
         next == SweepRun(base, activeSessions, 0)
     IN /\ sw' = next
        /\ closeCalls' = IF next.pc = "closing"
                         THEN [closeCalls EXCEPT ![next.cur] = @ + 1] ELSE closeCalls
  /\ UNCHANGED << now, activeSessions, nextId, filecryptIdOf, createdAt, solvedLinks, browser,
                  req, answered >>

\* line 182 settles (a rejection is swallowed); lines 184-185 delete the key
\* and count; the loop goes on.
SweepCloseDone(ok) ==
  /\ lastSweep' = NoSweep
  /\ Quiescent
  /\ sw.pc = "closing"
  /\ LET j == MapIndex(activeSessions, sw.curKey, 1)
         m == MapDelete(activeSessions, sw.curKey)
         next == SweepRun([sw EXCEPT !.cleanedCount = @ + 1], m, ItAfterDelete(j))
     IN /\ activeSessions' = m
        /\ sw' = next
        /\ browser' = IF ok THEN [browser EXCEPT ![sw.cur] = "closed"] ELSE browser
        /\ req' = PagesAfterClose(sw.cur, ok)
        /\ closeCalls' = IF next.pc = "closing"
                         THEN [closeCalls EXCEPT ![next.cur] = @ + 1] ELSE closeCalls
  /\ UNCHANGED << now, nextId, filecryptIdOf, createdAt, solvedLinks, answered, started >>

SweepFinish ==
  /\ sw.pc = "done"
  /\ lastSweep' = IF sw.alone THEN [ok |-> TRUE, now |-> sw.now, count |-> sw.cleanedCount]
                             ELSE NoSweep
  /\ sw' = IdleSweep
  /\ UNCHANGED << now, activeSessions, nextId, filecryptIdOf, createdAt, solvedLinks, browser,
                  closeCalls, req, answered, started >>

\* --------------------------------------------------------- specification
Bool == {TRUE, FALSE}

\* The continuations of /solve-filecrypt request r after its first suspension.
ReqStep(r, lists) ==
  \/ \E ok \in Bool : ExpiredCloseDone(r, ok)
  \/ \E ok \in Bool : LaunchDone(r, ok)
  \/ \E ok \in Bool : NewPageDone(r, ok)
  \/ \E ok \in Bool : GotoDone(r, ok)
  \/ ProbeDone(r)
  \/ \E o \in {"found", "timeout", "error"} : WaitLinksDone(r, o)
  \/ \E ok \in Bool, l \in lists : EvaluateDone(r, ok, l)
  \/ \E ok \in Bool : PageCloseDone(r, ok)
  \/ \E ok \in Bool : CatchCloseDone(r, ok)
  \/ SolveFinish(r)

SolveStep(lists) == \E r \in Reqs : ReqStep(r, lists)

\* Any interleaving of the handlers' continuations, for requests that race on
\* one site identifier.
Next ==
  \/ Tick(MaxClock)
  \/ \E r \in Reqs, u \in UrlsOfA : SolveStart(r, u)
  \/ SolveStep(LinkLists)
  \/ GetSolvedLinks
  \/ SweepStart
  \/ \E ok \in Bool : SweepCloseDone(ok)
  \/ SweepFinish

Spec == Init /\ [][Next]_vars

\* The same interleavings when every awaited browser call settles (completes
\* or fails) and the event loop then runs the continuation that waits for it.
SweepStep == (\E ok \in Bool : SweepCloseDone(ok)) \/ SweepFinish

LiveSolveStart(r) ==
  /\ started.solve < MaxLiveSolves
  /\ SolveStart(r, [style |-> "Container", id |-> "A"])

LiveSweepStart == started.sweep < MaxLiveSweeps /\ SweepStart

LiveNext ==
  \/ Tick(MaxClock)
  \/ \E r \in Reqs : LiveSolveStart(r)
  \/ SolveStep(LinkLists)
  \/ LiveSweepStart
  \/ \E ok \in Bool : SweepCloseDone(ok)
  \/ SweepFinish

LiveSpec ==
  /\ Init /\ [][LiveNext]_vars
  /\ \A r \in Reqs : WF_vars(ReqStep(r, LinkLists))
  /\ WF_vars(SweepStep)

\* One request at a time: a handler runs to its response before the next
\* request arrives (time still passes while it is suspended).
InFlight == Cardinality({ r \in Reqs : req[r].pc # "idle" }) + (IF sw.pc # "idle" THEN 1 ELSE 0)

SeqSolveStart(r, u) == InFlight = 0 /\ SolveStart(r, u)
SeqSweepStart == InFlight = 0 /\ SweepStart

SeqNext ==
  \/ Tick(MaxSeqClock)
  \/ \E r \in Reqs, u \in Urls : SeqSolveStart(r, u)
  \/ SolveStep(LinkLists)
  \/ GetSolvedLinks
  \/ SeqSweepStart
  \/ \E ok \in Bool : SweepCloseDone(ok)
  \/ SweepFinish

SeqSpec == Init /\ [][SeqNext]_vars

\* One request at a time on one site identifier, with pages that show up to
\* MaxSeqLinks anchors.
LinkNext ==
  \/ Tick(MaxClock)
  \/ \E r \in Reqs, u \in UrlsOfA : SeqSolveStart(r, u)
  \/ SolveStep(SeqLinkLists)
  \/ GetSolvedLinks
  \/ SeqSweepStart
  \/ \E ok \in Bool : SweepCloseDone(ok)
  \/ SweepFinish

LinkSpec == Init /\ [][LinkNext]_vars

\* Requests for the two site identifiers in flight together (no sweep).
UrlsOfBoth == { u \in Urls : u.style = "Container" }

SiteNext ==
  \/ Tick(MaxClock)
  \/ \E r \in Reqs, u \in UrlsOfBoth : SolveStart(r, u)
  \/ SolveStep(LinkLists)
  \/ GetSolvedLinks

SiteSpec == Init /\ [][SiteNext]_vars

\* ------------------------------------------------------------ the claims
Created(s) == s < nextId
IsStored(s) == s \in MapVals(activeSessions)
Responded(r) == req[r].pc = "done"
Failed(r) == Responded(r) /\ req[r].resp.error \in {"Timeout", "Unexpected"}

\* C1: every browser that was launched and is not closed is the browser of
\* the session stored in activeSessions under its siteId (so there is at most
\* one per siteId and none is open while unreferenced), in every reachable
\* state of every interleaving.
C1_OpenBrowserIsStored ==
  \A s \in SessIds :
    browser[s] = "open" =>
      /\ MapHas(activeSessions, filecryptIdOf[s])
      /\ MapGet(activeSessions, filecryptIdOf[s]) = s

\* C2: close() is invoked on a session's browser never twice, and never zero
\* times for a session that is no longer in the store.
C2_ClosedExactlyOnce ==
  \A s \in SessIds :
    Created(s) =>
      /\ closeCalls[s] <= 1
      /\ ~IsStored(s) => closeCalls[s] = 1

\* C3: getFileCryptSession returns the stored session only if its age at the
\* freshness check is at most 30 minutes; a call that found the stored
\* session older has removed the key when it goes on to launch; and the
\* session a launch leads to has a new id, a new open browser, createdAt =
\* now, no solved links, and is the one stored under the siteId.
C3_Returns(r) ==
  /\ (req[r].pc = "idle" /\ req'[r].pc = "newPage")
       => Age(now, req'[r].session) <= expiredThreshold
  /\ ( /\ req[r].pc = "idle" /\ req'[r].pc \notin {"idle", "done"}
       /\ MapHas(activeSessions, req'[r].filecryptId)
       /\ Age(now, MapGet(activeSessions, req'[r].filecryptId)) > expiredThreshold )
       => req'[r].pc = "closing"
  /\ (req[r].pc = "closing" /\ req'[r].pc = "launching")
       => ~MapHas(activeSessions', req[r].filecryptId)
  /\ (req[r].pc = "launching" /\ req'[r].pc = "newPage")
       => LET s == req'[r].session
          IN /\ ~Created(s) /\ browser[s] = "none"
             /\ browser'[s] = "open"
             /\ createdAt'[s] = now'
             /\ solvedLinks'[s] = EmptyLinks
             /\ MapHas(activeSessions', req[r].filecryptId)
             /\ MapGet(activeSessions', req[r].filecryptId) = s

\* C3: in every step of every request, getFileCryptSession returns no stored
\* session older than 30 minutes, evicts the one it found older, and what it
\* launches is a fresh session stored under the siteId.
C3_NeverReturnsExpired == [][\A r \in Reqs : C3_Returns(r)]_vars

\* A call that evicted an expired session has just returned the new one.
C3_Witness ==
  \E r \in Reqs :
    /\ req[r].pc = "newPage"
    /\ req[r].old # NoId
    /\ Age(now, req[r].old) > expiredThreshold
    /\ req[r].session # req[r].old
    /\ IsStored(req[r].session)

\* C4: /get-solved-links answers 404 whenever the siteId has no stored
\* session or the stored session is older than 30 minutes.
C4_NotFoundWhenNotLive ==
  \A u \in Urls, sessionId \in SessIds \cup {NoId} :
    LET id == filecryptIdMatch(u)
    IN ( /\ id # NoMatch
         /\ \/ ~MapHas(activeSessions, id)
            \/ Age(now, MapGet(activeSessions, id)) > expiredThreshold )
       => GetSolvedLinksResponse(u, sessionId).status = 404

\* C5: a request that opened a page and answers Timeout or Unexpected has
\* closed the page before it answers.
C5_PageClosedBeforeError ==
  \A r \in Reqs : Failed(r) => req[r].page # "open"

\* C6, the part about failed runs: a run that answers Timeout or Unexpected
\* has left solvedLinks as it was.
C6_FailedRunLeavesLinks ==
  \A r \in Reqs : Failed(r) => ~req[r].merged

HasLink(s, u) == solvedLinks[s][u] # NoText

\* the text the last anchor with url u in list l carries
LastText(l, u) ==
  l[CHOOSE x \in 1 .. Len(l) : l[x].url = u /\ \A y \in (x + 1) .. Len(l) : l[y].url # u].text

\* C6, step by step: within a session's lifetime solvedLinks never loses a url; it
\* changes only in the step in which a run's page.evaluate succeeded (whatever
\* that run answers later), and then every url of the extracted list maps to
\* the text of its last anchor and every other url keeps its entry; a success
\* response returns only urls the session holds, and /get-solved-links
\* returns every url the stored session holds.
C6_Step ==
  /\ \A s \in SessIds, u \in LinkUrls : HasLink(s, u) => solvedLinks'[s][u] # NoText
  /\ \A s \in SessIds :
       (Created(s) /\ solvedLinks'[s] # solvedLinks[s]) =>
         \E r \in Reqs :
           /\ req[r].pc = "evaluate" /\ req'[r].pc = "closeOk" /\ req[r].session = s
           /\ LET l == req'[r].links
              IN \A u \in LinkUrls :
                   solvedLinks'[s][u] =
                     IF \E x \in 1 .. Len(l) : l[x].url = u THEN LastText(l, u)
                     ELSE solvedLinks[s][u]
  /\ \A r \in Reqs :
       (req'[r].pc = "done" /\ req'[r].resp.success) =>
         \A x \in 1 .. Len(req'[r].resp.links) :
           solvedLinks'[req'[r].resp.sessionId][req'[r].resp.links[x].url] # NoText
  /\ \A u \in Urls, sessionId \in SessIds \cup {NoId} :
       LET resp == GetSolvedLinksResponse(u, sessionId)
       IN resp.status = 200 =>
            { l.url : l \in resp.links } = { x \in LinkUrls : HasLink(resp.sessionId, x) }

\* C6: in every step solvedLinks loses no url and changes only by the merge
\* of a run whose page.evaluate succeeded, and the links a session holds are
\* the links /get-solved-links returns.
C6_LinksOnlyGrow == [][C6_Step]_vars

\* A run answers Timeout on a session that holds two links from earlier
\* runs, and the stored session still has both.
C6_Witness ==
  \E r \in Reqs :
    /\ Responded(r) /\ req[r].resp.error = "Timeout" /\ ~req[r].merged
    /\ IsStored(req[r].session)
    /\ \A u \in LinkUrls : HasLink(req[r].session, u)

\* ---- the sweep, run with no other request interleaved
SweepAlone == sw.pc = "done" /\ sw.alone
StartSessions == MapVals(sw.start)

\* what the sweep must leave: the entries of the store it started from whose
\* session is not among `gone`, in order
RECURSIVE Without(_, _)
Without(m, gone) ==
  IF m = <<>> THEN <<>>
  ELSE IF Head(m).v \in gone THEN Without(Tail(m), gone)
  ELSE << Head(m) >> \o Without(Tail(m), gone)

SweepOutcome(expired) ==
  /\ activeSessions = Without(sw.start, expired)
  /\ \A s \in SessIds :
       /\ closeCalls[s] = sw.closedBefore[s] + (IF s \in expired THEN 1 ELSE 0)
       /\ s \notin expired => /\ browser[s] = sw.before[1][s]
                               /\ solvedLinks[s] = sw.before[2][s]
                               /\ createdAt[s] = sw.before[3][s]
  /\ sw.cleanedCount = Cardinality(expired)
  /\ sw.size = Len(activeSessions)

\* C7, ages taken when examined: the sessions an undisturbed sweep removed
\* are exactly those whose age exceeded 30 minutes when the loop examined them.
C7_RemovesOldWhenExamined ==
  SweepAlone => SweepOutcome(sw.seenOld)

\* C7, ages taken at the start: the sessions an undisturbed sweep removed are
\* exactly those whose age exceeded 30 minutes at the time the sweep started
\* (now is read once, line 173); each of them had close() invoked once more,
\* every other session is left in the store with its id, browser, createdAt
\* and solvedLinks unchanged, and the count reported is the number removed.
C7_RemovesOldAtStart ==
  SweepAlone => SweepOutcome({ s \in StartSessions : Age(sw.now, s) > expiredThreshold })

\* A sweep removed one session and kept another.
C7_Witness ==
  /\ SweepAlone
  /\ sw.cleanedCount = 1
  /\ Len(sw.start) = 2 /\ Len(activeSessions) = 1

SecondSweep == SweepAlone /\ sw.second
NothingSwept ==
  /\ sw.cleanedCount = 0
  /\ activeSessions = sw.start
  /\ closeCalls = sw.closedBefore

\* C8, nothing between the two calls: a sweep that starts right after an
\* undisturbed sweep answered (no request and no clock advance in between)
\* removes nothing, closes nothing and leaves the store as it found it.
C8_SecondSweepRemovesNothing == SecondSweep => NothingSwept

\* C8, no time since the first call read the clock: a sweep that starts right
\* after an undisturbed sweep answered, and reads the same clock value as
\* that sweep did, removes nothing, closes nothing and leaves the store as it
\* found it.
C8_SecondSweepSameClock == (SecondSweep /\ sw.now = sw.firstNow) => NothingSwept

\* The second of two sweeps at one clock value answers; the first had
\* removed a session and left another.
C8_Witness ==
  /\ SecondSweep /\ sw.now = sw.firstNow
  /\ sw.firstCount >= 1
  /\ activeSessions # <<>>

\* C9: Timeout is answered only when the 120 s link wait ran out, and a
\* failure of newPage, goto, evaluate or page.close is answered Unexpected.
C9_ErrorKindMatchesCause ==
  \A r \in Reqs :
    Responded(r) =>
      /\ req[r].resp.error = "Timeout" => req[r].e = "waitTimeout"
      /\ req[r].e \in {"newPage", "goto", "evaluate", "pageClose"}
           => req[r].resp.error = "Unexpected"

\* C10: a request that starts after a response carried sessionId s for its
\* siteId, less than 30 minutes after s was created, reuses s: it goes on
\* with session s without launching a browser.
C10_Starts(r) ==
  (req[r].pc = "idle" /\ req'[r].pc \notin {"idle", "done"}) =>
    \A s \in answered[req'[r].filecryptId] :
      Age(now, s) < expiredThreshold
        => req'[r].pc = "newPage" /\ req'[r].session = s

\* C10: in every step, a request that starts on a siteId for which a response
\* carried sessionId s, less than 30 minutes after s was created, goes on
\* with s.
C10_SecondRequestReuses == [][\A r \in Reqs : C10_Starts(r)]_vars

\* ---- requests the pattern rejects
\* the url names neither of the two path styles the pattern accepts
NotFileCrypt(u) == u.style \notin {"Container", "Link"}

StoreFrame ==
  UNCHANGED << activeSessions, nextId, filecryptIdOf, createdAt, solvedLinks, browser, closeCalls >>

\* C11: the step a /solve-filecrypt request takes on a url that does not
\* match the pattern answers 400 InvalidInput with no sessionId, has launched
\* no browser, opened no page and obtained no session, and leaves the store
\* and every session's id, browser, createdAt and solvedLinks as they were.
C11_InvalidUrlNoEffect ==
  [][\A r \in Reqs, u \in Urls :
       (NotFileCrypt(u) /\ SolveStart(r, u)) =>
         /\ req'[r].pc = "done"
         /\ req'[r].resp = SolveResp(400, FALSE, "InvalidInput", <<>>, NoId)
         /\ req'[r].page = "none" /\ req'[r].session = NoId
         /\ \A q \in Reqs \ {r} : req'[q] = req[q]
         /\ sw' = sw
         /\ StoreFrame]_vars

\* A request was answered 400 while the store holds a session with an open
\* browser and another request is in flight.
C11_Witness ==
  \E r \in Reqs :
    /\ Responded(r) /\ req[r].resp.status = 400
    /\ \E s \in SessIds : IsStored(s) /\ browser[s] = "open"
    /\ \E q \in Reqs \ {r} : req[q].pc = "waitLinks"

\* ---- the sessionId check of /get-solved-links
\* the links session s holds, as /get-solved-links lists them
HeldLinks(s) ==
  { l \in [url : LinkUrls, text : LinkTexts] : solvedLinks[s][l.url] = l.text }

\* the valid urls whose siteId has a stored session
StoredUrls == { u \in Urls : ~NotFileCrypt(u) /\ MapHas(activeSessions, u.id) }

\* C12, any differing value: for a valid url whose siteId has a stored
\* session, every sessionId the body carries that differs from the stored
\* session's id is answered 403 with no links, and the matching id or none
\* is answered 200 with the session's links and id.
C12_MismatchIsForbidden ==
  \A u \in StoredUrls, sessionId \in SessionIdInputs :
    LET s == MapGet(activeSessions, u.id)
        resp == GetSolvedLinksResponse(u, sessionId)
    IN IF sessionId # NoId /\ sessionId # s
       THEN resp.status = 403 /\ resp.links = {}
       ELSE resp = LinksResp(200, "none", HeldLinks(s), s)

\* C12, truthy values: for a valid url whose siteId has a stored session, a
\* truthy sessionId that differs from the stored session's id is answered 403
\* Forbidden with no links and no sessionId; the matching id, no sessionId,
\* or a falsy one ("", 0, null, false) is answered 200 with all the links the
\* session holds and its id.
C12_TruthyMismatchIsForbidden ==
  \A u \in StoredUrls, sessionId \in SessionIdInputs :
    LET s == MapGet(activeSessions, u.id)
        resp == GetSolvedLinksResponse(u, sessionId)
    IN IF Truthy(sessionId) /\ sessionId # s
       THEN resp = LinksResp(403, "Forbidden", {}, NoId)
       ELSE resp = LinksResp(200, "none", HeldLinks(s), s)

\* The stored session of a siteId holds two links, another session id exists,
\* and the lookup refuses that id and returns both links for the right one.
C12_Witness ==
  \E u \in StoredUrls, other \in SessIds :
    LET s == MapGet(activeSessions, u.id)
    IN /\ Created(other) /\ other # s
       /\ Cardinality(HeldLinks(s)) = 2
       /\ GetSolvedLinksResponse(u, other).status = 403
       /\ GetSolvedLinksResponse(u, s).links = HeldLinks(s)

\* ---- deletions from the store
\* this step is the continuation of an operation that had close() pending on
\* session s, found under key k
ClosedBy(k, s) ==
  \/ \E r \in Reqs : /\ req[r].pc = "closing" /\ req'[r].pc = "launching"
                      /\ req[r].filecryptId = k /\ req[r].session = s
  \/ /\ sw.pc = "closing" /\ sw'.cleanedCount = sw.cleanedCount + 1
     /\ sw.curKey = k /\ sw.cur = s

\* C13: a step that removes a key from activeSessions removes the session
\* whose close() the removing operation had just awaited, and that session
\* is not a fresh one: no getFileCryptSession call and no sweep deletes a
\* session that another call stored under the key while it was suspended.
C13_DeletesOnlyClosedSession ==
  [][\A k \in SiteIds :
       (MapHas(activeSessions, k) /\ ~MapHas(activeSessions', k)) =>
         LET s == MapGet(activeSessions, k)
         IN ClosedBy(k, s) /\ ~IsFresh(now, s)]_vars

\* ---- requests for different siteIds
\* the request whose continuation this step is, and the siteId it works on
Acts(r) == req'[r].pc # req[r].pc
SiteOf(r) == IF req[r].pc = "idle" THEN req'[r].filecryptId ELSE req[r].filecryptId

\* all the store holds about siteId k: the entry under k, and browser state,
\* createdAt, solvedLinks and close() count of every session created for k
NoSession == << "none", 0, EmptyLinks, 0 >>
EntryOf(m, k) == IF MapHas(m, k) THEN MapGet(m, k) ELSE NoId
SiteState(k) ==
  [ entry |-> EntryOf(activeSessions, k),
    sessions |-> [s \in SessIds |->
                    IF filecryptIdOf[s] = k
                    THEN << browser[s], createdAt[s], solvedLinks[s], closeCalls[s] >>
                    ELSE NoSession] ]
SiteStateNext(k) ==
  [ entry |-> EntryOf(activeSessions', k),
    sessions |-> [s \in SessIds |->
                    IF filecryptIdOf'[s] = k
                    THEN << browser'[s], createdAt'[s], solvedLinks'[s], closeCalls'[s] >>
                    ELSE NoSession] ]

\* C14: every step of a /solve-filecrypt request for one siteId, on every
\* outcome, leaves the store entry, session id, browser state, createdAt and
\* solvedLinks of every other siteId unchanged, and leaves the in-flight
\* requests for other siteIds where they were; a /get-solved-links request
\* changes nothing at all.
C14_Step ==
  /\ \A r \in Reqs :
       Acts(r) =>
         \A k \in SiteIds \ {SiteOf(r)} :
           /\ SiteStateNext(k) = SiteState(k)
           /\ \A q \in Reqs : (q # r /\ req[q].filecryptId = k) => req'[q] = req[q]
  /\ GetSolvedLinks => \A k \in SiteIds : SiteStateNext(k) = SiteState(k)

C14_OtherSitesUntouched == [][C14_Step]_vars

\* A request for one siteId evicted that site's expired session while a
\* request for the other siteId is waiting for links on its own session.
C14_Witness ==
  \E r, q \in Reqs :
    /\ req[r].pc = "launching" /\ req[r].old # NoId
    /\ req[q].pc = "waitLinks" /\ req[q].filecryptId # req[r].filecryptId
    /\ IsStored(req[q].session) /\ browser[req[q].session] = "open"

\* ---- every request is answered
\* a response is written in the step that ends the handler and at no other
ResponseOnce(r) ==
  /\ req'[r].resp # req[r].resp =>
        \/ req[r].resp = NoResp /\ req[r].pc # "done" /\ req'[r].pc = "done"
        \/ req[r].pc = "done" /\ req'[r].pc = "idle"
  /\ (req[r].pc # "done" /\ req'[r].pc = "done") => req'[r].resp.status \in {200, 400, 500}

\* C15: when every browser-automation call settles, every /solve-filecrypt
\* request and every /cleanup-sessions request that has started reaches its
\* response, whatever happens to the other requests in flight; a handler
\* writes one response, in its last step; and /get-solved-links answers every
\* body with one of its four responses.
C15_EveryRequestResponds ==
  /\ \A r \in Reqs : (req[r].pc # "idle") ~> (req[r].pc = "done")
  /\ (sw.pc # "idle") ~> (sw.pc = "done")
  /\ [][\A r \in Reqs : ResponseOnce(r)]_vars
  /\ [](\A u \in Urls, sessionId \in SessionIdInputs :
          GetSolvedLinksResponse(u, sessionId).status \in {200, 400, 403, 404})

\* A request whose session's browser was closed under it (by a sweep or by
\* another request) has failed on it and has answered 500.
C15_Witness ==
  \E r \in Reqs :
    /\ Responded(r) /\ req[r].resp.status = 500
    /\ req[r].e \in {"newPage", "goto", "waitError", "evaluate", "pageClose"}
    /\ req[r].session # NoId /\ browser[req[r].session] = "closed"

\* ---- a close() that fails
\* the entries the sweep's iterator has not reached yet
Unvisited(m, i) == { m[x].v : x \in (i + 1) .. Len(m) }

\* C16: when the close() of an expired session's browser fails, the step that
\* follows still removes the key from the store; in getFileCryptSession it
\* sends no response and goes on to puppeteer.launch(); in the sweep it
\* counts the removal, and goes on to the next expired entry or, when it
\* ends, has left no expired entry unvisited.
C16_Step ==
  /\ \A r \in Reqs :
       ExpiredCloseDone(r, FALSE) =>
         /\ ~MapHas(activeSessions', req[r].filecryptId)
         /\ req'[r].pc = "launching"
         /\ req'[r].resp = NoResp
  /\ SweepCloseDone(FALSE) =>
         /\ ~MapHas(activeSessions', sw.curKey)
         /\ sw'.cleanedCount = sw.cleanedCount + 1
         /\ sw'.pc \in {"closing", "done"}
         /\ sw'.pc = "closing" => /\ Age(sw.now, sw'.cur) > expiredThreshold
                                  /\ closeCalls'[sw'.cur] = closeCalls[sw'.cur] + 1
         /\ sw'.pc = "done" =>
              \A s \in Unvisited(activeSessions', ItAfterDelete(MapIndex(activeSessions, sw.curKey, 1))) :
                Age(sw.now, s) <= expiredThreshold

C17_LookupIsPureRead ==
  [][GetSolvedLinks =>
       /\ StoreFrame
       /\ req' = req
       /\ sw'.pc = sw.pc /\ sw'.it = sw.it /\ sw'.cleanedCount = sw.cleanedCount
       /\ now' = now]_vars

\* The store holds a session older than 30 minutes with a link, and the
\* lookup answers with it: by url alone, by its id, and 403 for another id.
C17_Witness ==
  \E u \in StoredUrls :
    LET s == MapGet(activeSessions, u.id)
    IN /\ Age(now, s) > expiredThreshold
       /\ HeldLinks(s) # {}
       /\ GetSolvedLinksResponse(u, NoId).status = 200
       /\ GetSolvedLinksResponse(u, s).links = HeldLinks(s)
       /\ \E other \in SessIds \ {s} : GetSolvedLinksResponse(u, other).status = 403
       /\ \E r \in Reqs : req[r].pc = "waitLinks"

\* ---- a browser in use
\* request r has obtained a session and has not answered yet
Working(r) ==
  req[r].pc \in {"newPage", "goto", "probe", "waitLinks", "evaluate", "closeOk", "closeCatch"}

\* C18: while a /solve-filecrypt workflow that obtained a session is still
\* before its response, no close() has been invoked on that session's
\* browser and the browser is not closed (nor are the workflow's pages).
C18_NoCloseWhileInUse ==
  \A r \in Reqs :
    Working(r) =>
      /\ browser[req[r].session] # "closed"
      /\ closeCalls[req[r].session] = 0
      /\ req[r].page # "closed"

\* ---- the session a response names
\* C19: when a /solve-filecrypt request answers with a sessionId (success or
\* Timeout), that id is the session stored under the request's siteId, and a
\* /get-solved-links for that siteId with that sessionId, made right then,
\* is answered 200 and, after a success, returns the links extracted.
C19_ResponseNamesStoredSession ==
  \A r \in Reqs :
    (Responded(r) /\ req[r].resp.sessionId # NoId) =>
      LET k == req[r].filecryptId
          resp == GetSolvedLinksResponse([style |-> "Container", id |-> k], req[r].resp.sessionId)
      IN /\ MapHas(activeSessions, k)
         /\ MapGet(activeSessions, k) = req[r].resp.sessionId
         /\ resp.status = 200
         /\ req[r].resp.success =>
              \A x \in 1 .. Len(req[r].resp.links) :
                \E l \in resp.links : l.url = req[r].resp.links[x].url

\* ---- the two expiry tests
\* a sweep that reads the clock at t removes session s (lines 178-179)
SweepRemoves(t, s) == ScanFrom(<< [k |-> filecryptIdOf[s], v |-> s] >>, 0, t) # 0

\* C20: at every age a stored session reaches, exactly 30 minutes included,
\* getFileCryptSession treats it as expired if and only if a sweep at the
\* same instant removes it.
C20_ExpiryTestsAgree ==
  \A s \in SessIds :
    IsStored(s) => (~IsFresh(now, s) <=> SweepRemoves(now, s))

====
